---- MODULE Spec2Model ----
(***************************************************************************)
(* Model of the Wifi status bridge (WifiManagerState) of rdkservices: the  *)
(* bus callback statusChanged/updateWifiStatus, the query handlers, the    *)
(* once-only discovery of the wifi interface name, and the threads that    *)
(* run them concurrently.                                                  *)
(***************************************************************************)
EXTENDS Integers, Sequences, FiniteSets, TLC

(* ------------------------------ bounds -------------------------------- *)
MaxEvents == 2
MaxQueries == 1
MaxBusChanges == 1
MaxHdcpEvents == 4
MaxHdcpQueries == 2

(* ------------------------- program constants -------------------------- *)
\* WifiState, numbered as the comment above statusToState documents it.
UNINSTALLED == 0
DISABLED == 1
DISCONNECTED == 2
PAIRING == 3
CONNECTING == 4
CONNECTED == 5

\* InterfaceStatus values that statusToState has a row for.
MappedStatus ==
  {"Disabled", "Disconnected", "Associating", "Dormant", "Binding", "Assigned", "Scanning"}

\* Every InterfaceStatus the bus can deliver: the mapped ones and one the
\* table has no row for.
RawStatus == MappedStatus \cup {"Other"}

\* The statuses the seed query returns and the bus delivers while events run
\* concurrently: two that map to different WifiStates, one without a row.
ConcurrentStatus == {"Associating", "Assigned", "Other"}

\* The status the events carry where only the bus side is looked at.
BusEventStatus == {"Assigned"}

\* The values the snapshot can start with: one with a row, one without.
InitialStatus == {"Disabled", "Other"}

\* statusToState with the Dormant row pointing at the wrong WifiState.
statusToState_DormantDisabled ==
  [s \in MappedStatus |->
     CASE s = "Disabled" -> DISABLED
       [] s = "Disconnected" -> DISCONNECTED
       [] s = "Associating" -> CONNECTING
       [] s = "Dormant" -> DISABLED
       [] s = "Binding" -> CONNECTING
       [] s = "Assigned" -> CONNECTED
       [] s = "Scanning" -> CONNECTING]

\* const std::map<InterfaceStatus, WifiState> statusToState
statusToState ==
  [s \in MappedStatus |->
     CASE s = "Disabled" -> DISABLED
       [] s = "Disconnected" -> DISCONNECTED
       [] s = "Associating" -> CONNECTING
       [] s = "Dormant" -> DISCONNECTED
       [] s = "Binding" -> CONNECTING
       [] s = "Assigned" -> CONNECTED
       [] s = "Scanning" -> CONNECTING]

\* statusToState.find(s) != statusToState.end()
Found(s) == s \in DOMAIN statusToState

(* ------------------------------ threads ------------------------------- *)
InitThread == "init"
EventThreads == {"ev1"}
QueryThreads == {"q1"}
Threads == {InitThread} \cup EventThreads \cup QueryThreads
NoThread == "none"

(* ------------------------------ the bus ------------------------------- *)
\* What networkconfig1_GetInterfaces / GetParam(intf, "type") can report:
\* a list of interfaces with their type, in the bus's order.
Eth0 == [intf |-> "eth0", type |-> "ethernet"]
Wlan0 == [intf |-> "wlan0", type |-> "wifi"]
Wlan1 == [intf |-> "wlan1", type |-> "wifi"]
BusConfigs == {<<Eth0>>, <<Wlan1, Wlan0>>}
\* The interfaces status events are delivered for.
EventInterfaces == {"eth0", "wlan0"}

\* The netid strings GetParam(intf, "netid") can return, as character sequences.
NetIds == {<<>>, <<"w", "0">>, <<"w", ":", "h">>, <<"w", ":", "a", ":", "b">>}
EmptyString == <<>>

(* ----------------------------- JsonObject ----------------------------- *)
EmptyObject == [k \in {} |-> EmptyString]
\* response[key] = value
Put(obj, key, value) ==
  [k \in (DOMAIN obj) \cup {key} |-> IF k = key THEN value ELSE obj[k]]

\* returnResponse(success): sets "success" and returns
ReturnResponse(obj, success) == Put(obj, "success", success)

VARIABLES
  m_wifi_status,         \* the snapshot
  m_mutex,               \* owner of WifiManagerState::m_mutex, or NoThread
  interface_name_mutex,  \* owner of the static mutex of getWifiInterfaceName
  name,                  \* the static std::string of getWifiInterfaceName
  nameInitialized,       \* whether that static has been initialised
  fetchInterfaces,       \* fetchWifiInterfaceName: the interfaces vector
  fetchIdx,              \* fetchWifiInterfaceName: position of the range-for
  registered,            \* the status-changed callback is registered with the bus
  terminated,            \* Terminate() has been called
  busInterfaces,         \* what the bus reports now
  pc,                    \* per thread: where it is
  ret,                   \* per thread: where getWifiInterfaceName returns to
  status,                \* per thread: the status argument / seed status
  interface,             \* per thread: the interface argument of statusChanged
  wifiInterface,         \* per thread: the name getWifiInterfaceName returned
  lookup,                \* per thread: the m_wifi_status value find() was given
  response,              \* per thread: the JsonObject being filled
  notifications,         \* onWIFIStateChanged calls delivered, in order
  old,                   \* history: snapshot before this thread's store
  stamp,                 \* history: position of this thread's store among all stores
  raced,                 \* history: the thread's unlocked read overlapped a store
  notified,              \* history: this updateWifiStatus call delivered a notification
  stores,                \* history: number of stores so far
  written,               \* history: every value the snapshot has held
  fetches,               \* history: executions of fetchWifiInterfaceName
  observed,              \* history: names getWifiInterfaceName has returned
  netidQueries,          \* history: GetParam(.., "netid") calls made
  netid,                 \* history, per thread: what its netid query returned
  seedLog,               \* history: per networkconfig1_GetStatus call, whether it succeeded
  overtaken,             \* history: the last store was a bus thread's, made after
                         \* Initialize's status query returned and before Initialize
                         \* has taken m_mutex to store the seed
  hdmiConnected,         \* HDCP bridge: the last hot-plug event said "connected"
  hdcpStatus,            \* HDCP bridge: the last raw HDCP status event
  hdcpNotifications,     \* HDCP bridge: the statuses notified, in order
  hdcpResponse,          \* HDCP bridge: the last getHDCPStatus result
  unplugged,             \* history: a hot-unplug was the last hot-plug event processed
  nHdcpEvents, nHdcpQueries,
  nEvents, nQueries, nBusChanges

vars ==
  <<m_wifi_status, m_mutex, interface_name_mutex, name, nameInitialized,
    fetchInterfaces, fetchIdx, registered, terminated, busInterfaces,
    pc, ret, status, interface, wifiInterface, lookup, response, notifications,
    old, stamp, raced, notified, stores, written, fetches, observed, netidQueries,
    netid, seedLog, overtaken, hdmiConnected, hdcpStatus, hdcpNotifications, hdcpResponse,
    unplugged, nHdcpEvents, nHdcpQueries, nEvents, nQueries, nBusChanges>>

\* groups used in UNCHANGED
nameVars == <<interface_name_mutex, name, nameInitialized, fetchInterfaces, fetchIdx,
              fetches, observed>>
snapVars == <<m_wifi_status, m_mutex, stores, written, overtaken>>
callVars == <<status, interface, lookup, old, stamp, raced, notified>>
envVars == <<registered, terminated, busInterfaces, nEvents, nQueries, nBusChanges>>
logVars == <<netidQueries, netid, seedLog>>
hdcpVars == <<hdmiConnected, hdcpStatus, hdcpNotifications, hdcpResponse, unplugged,
              nHdcpEvents, nHdcpQueries>>

NoStatus == "-"
NoName == "-"
\* no netid query made yet, and a netid query that returned false
NoNetid == <<"-">>
FailedNetid == <<"!">>

\* WifiManagerState::WifiManagerState() stores nothing in m_wifi_status: the
\* snapshot starts with whatever value the member was created with.
Init ==
  /\ m_wifi_status \in InitialStatus
  /\ m_mutex = NoThread
  /\ interface_name_mutex = NoThread
  /\ name = ""
  /\ nameInitialized = FALSE
  /\ fetchInterfaces = <<>>
  /\ fetchIdx = 0
  /\ registered = FALSE
  /\ terminated = FALSE
  /\ busInterfaces \in BusConfigs
  /\ pc = [t \in Threads |-> IF t = InitThread THEN "init_start" ELSE "idle"]
  /\ ret = [t \in Threads |-> "idle"]
  /\ status = [t \in Threads |-> NoStatus]
  /\ interface = [t \in Threads |-> NoName]
  /\ wifiInterface = [t \in Threads |-> NoName]
  /\ lookup = [t \in Threads |-> NoStatus]
  /\ response = [t \in Threads |-> EmptyObject]
  /\ notifications = <<>>
  /\ old = [t \in Threads |-> NoStatus]
  /\ stamp = [t \in Threads |-> 0]
  /\ raced = [t \in Threads |-> FALSE]
  /\ notified = [t \in Threads |-> FALSE]
  /\ stores = 0
  /\ written = {m_wifi_status}
  /\ fetches = 0
  /\ observed = {}
  /\ netidQueries = 0
  /\ netid = [t \in Threads |-> NoNetid]
  /\ seedLog = <<>>
  /\ overtaken = FALSE
  /\ hdmiConnected = FALSE
  /\ hdcpStatus = "UNPOWERED"
  /\ hdcpNotifications = <<>>
  /\ hdcpResponse = EmptyObject
  /\ unplugged = FALSE
  /\ nHdcpEvents = 0
  /\ nHdcpQueries = 0
  /\ nEvents = 0
  /\ nQueries = 0
  /\ nBusChanges = 0

(* ---------------------- getWifiInterfaceName -------------------------- *)
\* A call of getWifiInterfaceName by thread t that will continue at `back`.
CallGetWifiInterfaceName(t, back) ==
  /\ pc' = [pc EXCEPT ![t] = "gwin_lock"]
  /\ ret' = [ret EXCEPT ![t] = back]

\* getWifiInterfaceName with a plain local instead of the static: every call fetches.
StaticNeedsInit_EveryCall == TRUE

\* std::lock_guard lock(interface_name_mutex); then the function-local static
\* is initialised by fetchWifiInterfaceName() only if it has not been yet.
StaticNeedsInit == ~nameInitialized

GetWifiInterfaceName_Lock(t) ==
  /\ pc[t] = "gwin_lock"
  /\ interface_name_mutex = NoThread
  /\ interface_name_mutex' = t
  /\ IF StaticNeedsInit
       THEN /\ pc' = [pc EXCEPT ![t] = "fetch_interfaces"]
            /\ fetches' = fetches + 1
       ELSE /\ pc' = [pc EXCEPT ![t] = "gwin_return"]
            /\ UNCHANGED fetches
  /\ UNCHANGED <<name, nameInitialized, fetchInterfaces, fetchIdx, observed>>
  /\ UNCHANGED <<snapVars, callVars, envVars, ret, wifiInterface, response,
                 notifications, logVars, hdcpVars>>

\* fetchWifiInterfaceName returned `result`: the static is initialised with it.
FetchReturn(t, result) ==
  /\ name' = result
  /\ nameInitialized' = TRUE
  /\ fetchInterfaces' = <<>>
  /\ fetchIdx' = 0
  /\ pc' = [pc EXCEPT ![t] = "gwin_return"]

\* if (dbus.networkconfig1_GetInterfaces(interfaces)) ... else return ""
FetchWifiInterfaceName_GetInterfaces(t) ==
  /\ pc[t] = "fetch_interfaces"
  /\ \/ /\ fetchInterfaces' = busInterfaces
        /\ fetchIdx' = 1
        /\ pc' = [pc EXCEPT ![t] = "fetch_loop"]
        /\ UNCHANGED <<name, nameInitialized>>
     \/ FetchReturn(t, "")
  /\ UNCHANGED <<interface_name_mutex, fetches, observed>>
  /\ UNCHANGED <<snapVars, callVars, envVars, ret, wifiInterface, response,
                 notifications, logVars, hdcpVars>>

\* The type the bus reports for interface i now; "" when it has none.
BusType(i) ==
  IF \E k \in 1..Len(busInterfaces) : busInterfaces[k].intf = i
    THEN (CHOOSE e \in {busInterfaces[k] : k \in 1..Len(busInterfaces)} : e.intf = i).type
    ELSE ""

\* for (auto &intf : interfaces)
\*    if (dbus.networkconfig1_GetParam(intf, "type", type) && type == "wifi") return intf;
\* return "";
FetchWifiInterfaceName_Loop(t) ==
  /\ pc[t] = "fetch_loop"
  /\ IF fetchIdx > Len(fetchInterfaces)
       THEN FetchReturn(t, "")
       ELSE \/ /\ BusType(fetchInterfaces[fetchIdx].intf) = "wifi"
               /\ FetchReturn(t, fetchInterfaces[fetchIdx].intf)
            \/ \* GetParam failed, or the type is not "wifi"
               /\ fetchIdx' = fetchIdx + 1
               /\ UNCHANGED <<name, nameInitialized, fetchInterfaces, pc>>
  /\ UNCHANGED <<interface_name_mutex, fetches, observed>>
  /\ UNCHANGED <<snapVars, callVars, envVars, ret, wifiInterface, response,
                 notifications, logVars, hdcpVars>>

\* return name; (the lock_guard releases interface_name_mutex)
GetWifiInterfaceName_Return(t) ==
  /\ pc[t] = "gwin_return"
  /\ interface_name_mutex' = NoThread
  /\ wifiInterface' = [wifiInterface EXCEPT ![t] = name]
  /\ observed' = observed \cup {name}
  /\ pc' = [pc EXCEPT ![t] = ret[t]]
  /\ UNCHANGED <<name, nameInitialized, fetchInterfaces, fetchIdx, fetches>>
  /\ UNCHANGED <<snapVars, callVars, envVars, ret, response, notifications, logVars, hdcpVars>>

(* ---------------------------- Initialize ------------------------------ *)
\* if (getWifiInterfaceName().empty())
Initialize_Start(t) ==
  /\ t = InitThread
  /\ pc[t] = "init_start"
  /\ CallGetWifiInterfaceName(t, "init_check")
  /\ UNCHANGED <<nameVars, snapVars, callVars, envVars, wifiInterface, response,
                 notifications, logVars, hdcpVars>>

\* Initialize whose empty-name branch only logs and then carries on: the
\* callback is registered and the seed query made with an empty name.
Initialize_RegisterAlways(t) ==
  /\ t = InitThread
  /\ pc[t] = "init_check"
  /\ registered' = TRUE
  /\ CallGetWifiInterfaceName(t, "init_status")
  /\ UNCHANGED <<nameVars, snapVars, callVars, terminated, busInterfaces, nEvents,
                 nQueries, nBusChanges, wifiInterface, response, notifications,
                 logVars, hdcpVars>>

\* empty: LOGWARN, nothing else.  Otherwise dbus.registerStatusChanged(...) and
\* const std::string iname = getWifiInterfaceName();
Initialize_Register(t) ==
  /\ t = InitThread
  /\ pc[t] = "init_check"
  /\ IF wifiInterface[t] = ""
       THEN /\ pc' = [pc EXCEPT ![t] = "done"]
            /\ UNCHANGED <<ret, registered>>
       ELSE /\ registered' = TRUE
            /\ CallGetWifiInterfaceName(t, "init_status")
  /\ UNCHANGED <<nameVars, snapVars, callVars, terminated, busInterfaces, nEvents,
                 nQueries, nBusChanges, wifiInterface, response, notifications,
                 logVars, hdcpVars>>

\* Initialize that does not look at what networkconfig1_GetStatus returned: a
\* failed query still goes on to updateWifiStatus(status).
Initialize_GetStatus_Unchecked(t) ==
  /\ t = InitThread
  /\ pc[t] = "init_status"
  /\ \/ \E s \in ConcurrentStatus :
          /\ status' = [status EXCEPT ![t] = s]
          /\ seedLog' = Append(seedLog, TRUE)
     \/ /\ status' = [status EXCEPT ![t] = "Disabled"]
        /\ seedLog' = Append(seedLog, FALSE)
  /\ pc' = [pc EXCEPT ![t] = "uws_lock"]
  /\ UNCHANGED <<nameVars, snapVars, envVars, ret, interface, lookup, old, stamp, raced,
                 notified, wifiInterface, response, notifications, netidQueries, netid,
                 hdcpVars>>

\* if (dbus.networkconfig1_GetStatus(iname, status)) updateWifiStatus(status);
\* else LOGWARN
Initialize_GetStatus(t) ==
  /\ t = InitThread
  /\ pc[t] = "init_status"
  /\ \/ \E s \in ConcurrentStatus :
          /\ status' = [status EXCEPT ![t] = s]
          /\ seedLog' = Append(seedLog, TRUE)
          /\ pc' = [pc EXCEPT ![t] = "uws_lock"]
     \/ /\ pc' = [pc EXCEPT ![t] = "done"]
        /\ seedLog' = Append(seedLog, FALSE)
        /\ UNCHANGED status
  /\ UNCHANGED <<nameVars, snapVars, envVars, ret, interface, lookup, old, stamp, raced,
                 notified, wifiInterface, response, notifications, netidQueries, netid,
                 hdcpVars>>

(* --------------------------- statusChanged ---------------------------- *)
\* The bus invokes the registered callback statusChanged(interface, status) on
\* thread t; its first statement calls getWifiInterfaceName().
StatusChanged_Call(t, i, s) ==
  /\ t \in EventThreads
  /\ pc[t] = "idle"
  /\ registered
  /\ nEvents < MaxEvents
  /\ nEvents' = nEvents + 1
  /\ status' = [status EXCEPT ![t] = s]
  /\ interface' = [interface EXCEPT ![t] = i]
  /\ CallGetWifiInterfaceName(t, "sc_compare")
  /\ UNCHANGED <<nameVars, snapVars, lookup, old, stamp, raced, notified, registered,
                 terminated, busInterfaces, nQueries, nBusChanges, wifiInterface,
                 response, notifications, logVars, hdcpVars>>

\* What a thread's per-call variables are once its call has returned.
ResetCall(t) ==
  /\ status' = [status EXCEPT ![t] = NoStatus]
  /\ interface' = [interface EXCEPT ![t] = NoName]
  /\ lookup' = [lookup EXCEPT ![t] = NoStatus]
  /\ old' = [old EXCEPT ![t] = NoStatus]
  /\ stamp' = [stamp EXCEPT ![t] = 0]
  /\ raced' = [raced EXCEPT ![t] = FALSE]
  /\ notified' = [notified EXCEPT ![t] = FALSE]
  /\ wifiInterface' = [wifiInterface EXCEPT ![t] = NoName]

\* statusChanged without the comparison: every event goes to updateWifiStatus.
StatusChanged_NoCompare(t) ==
  /\ pc[t] = "sc_compare"
  /\ pc' = [pc EXCEPT ![t] = "uws_lock"]
  /\ UNCHANGED <<callVars, wifiInterface>>
  /\ UNCHANGED <<nameVars, snapVars, envVars, ret, response, notifications, logVars, hdcpVars>>

\* if (interface == getWifiInterfaceName()) updateWifiStatus(status);
StatusChanged_Compare(t) ==
  /\ pc[t] = "sc_compare"
  /\ IF interface[t] = wifiInterface[t]
       THEN /\ pc' = [pc EXCEPT ![t] = "uws_lock"]
            /\ UNCHANGED <<callVars, wifiInterface>>
       ELSE /\ pc' = [pc EXCEPT ![t] = "idle"]
            /\ ResetCall(t)
  /\ UNCHANGED <<nameVars, snapVars, envVars, ret, response, notifications, logVars, hdcpVars>>

(* -------------------------- updateWifiStatus -------------------------- *)
\* std::lock_guard<std::mutex> lock(m_mutex);
UpdateWifiStatus_Lock(t) ==
  /\ pc[t] = "uws_lock"
  /\ m_mutex = NoThread
  /\ m_mutex' = t
  /\ pc' = [pc EXCEPT ![t] = "uws_store"]
  /\ UNCHANGED <<m_wifi_status, stores, written, overtaken>>
  /\ UNCHANGED <<nameVars, callVars, envVars, ret, wifiInterface, response,
                 notifications, logVars, hdcpVars>>

\* m_wifi_status = status;
UpdateWifiStatus_Store(t) ==
  /\ pc[t] = "uws_store"
  /\ m_wifi_status' = status[t]
  /\ written' = written \cup {status[t]}
  /\ stores' = stores + 1
  /\ old' = [old EXCEPT ![t] = m_wifi_status]
  /\ stamp' = [stamp EXCEPT ![t] = stores + 1]
  /\ overtaken' = (t # InitThread /\ pc[InitThread] = "uws_lock")
  /\ pc' = [pc EXCEPT ![t] = "uws_unlock"]
  /\ UNCHANGED <<m_mutex, status, interface, lookup, raced, notified>>
  /\ UNCHANGED <<nameVars, envVars, ret, wifiInterface, response, notifications,
                 logVars, hdcpVars>>

\* updateWifiStatus without the inner block: the lock_guard lives to the end of
\* the function, so the mutex stays held over the lookup and the notification.
UpdateWifiStatus_UnlockAtEnd(t) ==
  /\ pc[t] = "uws_unlock"
  /\ pc' = [pc EXCEPT ![t] = "uws_lookup"]
  /\ UNCHANGED <<m_wifi_status, m_mutex, stores, written, overtaken>>
  /\ UNCHANGED <<nameVars, callVars, envVars, ret, wifiInterface, response,
                 notifications, logVars, hdcpVars>>

\* the closing brace of the block of the lock_guard
UpdateWifiStatus_Unlock(t) ==
  /\ pc[t] = "uws_unlock"
  /\ m_mutex' = NoThread
  /\ pc' = [pc EXCEPT ![t] = "uws_lookup"]
  /\ UNCHANGED <<m_wifi_status, stores, written, overtaken>>
  /\ UNCHANGED <<nameVars, callVars, envVars, ret, wifiInterface, response,
                 notifications, logVars, hdcpVars>>

\* Another thread is inside the locked block, its store not yet done.
StoreInProgress(t) == \E u \in Threads \ {t} : pc[u] = "uws_store"

\* The statuses the threads inside the locked block are storing.
BeingStored(t) == {status[u] : u \in {x \in Threads \ {t} : pc[x] = "uws_store"}}

\* What a read that overlaps a store can yield besides the old and the new
\* value: Dormant stands for every value that is neither.
TornStatus == {"Dormant"}

\* The values a read of m_wifi_status made without m_mutex can yield: the
\* stored value, or, when the read overlaps another thread's store (a data
\* race), the old value, the new one, or a value that is neither.
UnlockedRead(t) ==
  IF StoreInProgress(t)
    THEN {m_wifi_status} \cup BeingStored(t) \cup TornStatus
    ELSE {m_wifi_status}

\* auto lookup = statusToState.find(m_wifi_status);   -- read after the unlock.
\* The read races with every store made since this call's own, so the build
\* may also have kept this call's own `status` for it.
UpdateWifiStatus_Lookup(t) ==
  /\ pc[t] = "uws_lookup"
  /\ \E v \in UnlockedRead(t) \cup {status[t]} :
       /\ lookup' = [lookup EXCEPT ![t] = v]
       /\ pc' = [pc EXCEPT ![t] = IF Found(v) THEN "uws_notify" ELSE "uws_return"]
  /\ raced' = [raced EXCEPT ![t] = StoreInProgress(t)]
  /\ UNCHANGED <<status, interface, old, stamp, notified>>
  /\ UNCHANGED <<nameVars, snapVars, envVars, ret, wifiInterface, response,
                 notifications, logVars, hdcpVars>>

\* The onWIFIStateChanged call of thread t, as delivered to the subscribers.
Notification(t) ==
  [state |-> statusToState[lookup[t]], isLNF |-> FALSE,
   event |-> status[t], stamp |-> stamp[t]]

\* WifiManager::getInstance().onWIFIStateChanged(lookup->second, false);
UpdateWifiStatus_Notify(t) ==
  /\ pc[t] = "uws_notify"
  /\ notifications' = Append(notifications, Notification(t))
  /\ notified' = [notified EXCEPT ![t] = TRUE]
  /\ pc' = [pc EXCEPT ![t] = "uws_return"]
  /\ UNCHANGED <<status, interface, lookup, old, stamp, raced>>
  /\ UNCHANGED <<nameVars, snapVars, envVars, ret, wifiInterface, response, logVars, hdcpVars>>

\* updateWifiStatus returns, and with it statusChanged or Initialize.
UpdateWifiStatus_Return(t) ==
  /\ pc[t] = "uws_return"
  /\ pc' = [pc EXCEPT ![t] = IF t = InitThread THEN "done" ELSE "idle"]
  /\ ResetCall(t)
  /\ UNCHANGED <<nameVars, snapVars, envVars, ret, response, notifications, logVars, hdcpVars>>

(* --------------------------- query handlers --------------------------- *)
\* A request thread enters a handler; the caller hands it an empty response.
EnterHandler(t, first) ==
  /\ t \in QueryThreads
  /\ pc[t] = "idle"
  /\ nQueries < MaxQueries
  /\ nQueries' = nQueries + 1
  /\ pc' = [pc EXCEPT ![t] = first]

\* uint32_t WifiManagerState::getCurrentState(parameters, response)
GetCurrentState_Call(t) ==
  /\ EnterHandler(t, "gcs_find")
  /\ response' = [response EXCEPT ![t] = EmptyObject]
  /\ UNCHANGED <<nameVars, snapVars, callVars, registered, terminated, busInterfaces,
                 nEvents, nBusChanges, ret, wifiInterface, notifications, logVars, hdcpVars>>

\* getCurrentState whose else branch does not return: it falls through to
\* returnResponse(true).
CurrentStateResponse_FallThrough(obj, v) ==
  IF Found(v)
    THEN ReturnResponse(Put(obj, "state", statusToState[v]), TRUE)
    ELSE ReturnResponse(obj, TRUE)

\* The response getCurrentState builds when find() is given the value v.
CurrentStateResponse(obj, v) ==
  IF Found(v)
    THEN ReturnResponse(Put(obj, "state", statusToState[v]), TRUE)
    ELSE ReturnResponse(obj, FALSE)

\* auto lookup = statusToState.find(m_wifi_status);  -- no lock is taken
GetCurrentState_Find(t) ==
  /\ pc[t] = "gcs_find"
  /\ \E v \in UnlockedRead(t) :
       /\ lookup' = [lookup EXCEPT ![t] = v]
       /\ response' = [response EXCEPT ![t] = CurrentStateResponse(response[t], v)]
  /\ raced' = [raced EXCEPT ![t] = StoreInProgress(t)]
  /\ pc' = [pc EXCEPT ![t] = "gcs_return"]
  /\ UNCHANGED <<status, interface, old, stamp, notified>>
  /\ UNCHANGED <<nameVars, snapVars, envVars, ret, wifiInterface, notifications,
                 logVars, hdcpVars>>

\* uint32_t WifiManagerState::getConnectedSSID(parameters, response) const
GetConnectedSSID_Call(t) ==
  /\ EnterHandler(t, "gwin_lock")
  /\ response' = [response EXCEPT ![t] = EmptyObject]
  /\ ret' = [ret EXCEPT ![t] = "ssid_check"]
  /\ UNCHANGED <<nameVars, snapVars, callVars, registered, terminated, busInterfaces,
                 nEvents, nBusChanges, wifiInterface, notifications, logVars, hdcpVars>>

\* netid.rfind(":"): the last position of c in s, 0 when there is none
Find_Last(s, c) ==
  IF \E k \in 1..Len(s) : s[k] = c
    THEN CHOOSE k \in 1..Len(s) : s[k] = c /\ \A j \in (k + 1)..Len(s) : s[j] # c
    ELSE 0

\* netid.find(":"): the first position of c in s, 0 when there is none (npos)
Find(s, c) ==
  IF \E k \in 1..Len(s) : s[k] = c
    THEN CHOOSE k \in 1..Len(s) : s[k] = c /\ \A j \in 1..(k - 1) : s[j] # c
    ELSE 0

\* netid.substr(pos + 1), pos being the position Find returned
SubstrAfter(s, pos) == SubSeq(s, pos + 1, Len(s))

\* The six assignments of empty strings and returnResponse(ret)
FinishConnectedSSID(obj, success) ==
  ReturnResponse(
    Put(Put(Put(Put(Put(Put(obj, "bssid", EmptyString), "rate", EmptyString),
      "noise", EmptyString), "security", EmptyString), "signalStrength", EmptyString),
      "frequency", EmptyString),
    success)

\* bool ret = false; if (!wifiInterface.empty()) ... else straight to the tail
GetConnectedSSID_Check(t) ==
  /\ pc[t] = "ssid_check"
  /\ IF wifiInterface[t] # ""
       THEN /\ pc' = [pc EXCEPT ![t] = "ssid_netid"]
            /\ UNCHANGED response
       ELSE /\ pc' = [pc EXCEPT ![t] = "ssid_return"]
            /\ response' = [response EXCEPT ![t] = FinishConnectedSSID(response[t], FALSE)]
  /\ UNCHANGED <<nameVars, snapVars, callVars, envVars, ret, wifiInterface,
                 notifications, logVars, hdcpVars>>

\* The response once GetParam(wifiInterface, "netid", netid) returned id.
ParseNetid(obj, id) ==
  IF Find(id, ":") # 0
    THEN FinishConnectedSSID(Put(obj, "ssid", SubstrAfter(id, Find(id, ":"))), TRUE)
    ELSE FinishConnectedSSID(obj, FALSE)

\* if (DBusClient::getInstance().networkconfig1_GetParam(wifiInterface, "netid", netid))
GetConnectedSSID_GetParam(t) ==
  /\ pc[t] = "ssid_netid"
  /\ netidQueries' = netidQueries + 1
  /\ \/ \E id \in NetIds :
          /\ netid' = [netid EXCEPT ![t] = id]
          /\ response' = [response EXCEPT ![t] = ParseNetid(response[t], id)]
     \/ /\ netid' = [netid EXCEPT ![t] = FailedNetid]
        /\ response' = [response EXCEPT ![t] = FinishConnectedSSID(response[t], FALSE)]
  /\ pc' = [pc EXCEPT ![t] = "ssid_return"]
  /\ UNCHANGED <<nameVars, snapVars, callVars, envVars, ret, wifiInterface, notifications,
                 seedLog, hdcpVars>>

\* setEnabled implemented by writing the snapshot itself: it stores Disabled.
SetEnabled_StoresDisabled(t) ==
  /\ EnterHandler(t, "se_return")
  /\ response' = [response EXCEPT ![t] = ReturnResponse(EmptyObject, FALSE)]
  /\ m_wifi_status' = "Disabled"
  /\ UNCHANGED <<m_mutex, stores, written, overtaken>>
  /\ UNCHANGED <<nameVars, callVars, registered, terminated, busInterfaces,
                 nEvents, nBusChanges, ret, wifiInterface, notifications, logVars, hdcpVars>>

\* uint32_t WifiManagerState::setEnabled(parameters, response)
SetEnabled(t) ==
  /\ EnterHandler(t, "se_return")
  /\ response' = [response EXCEPT ![t] = ReturnResponse(EmptyObject, FALSE)]
  /\ UNCHANGED <<nameVars, snapVars, callVars, registered, terminated, busInterfaces,
                 nEvents, nBusChanges, ret, wifiInterface, notifications, logVars, hdcpVars>>

\* getSupportedSecurityModes ending in returnResponse(true).
GetSupportedSecurityModes_ReturnsTrue(t) ==
  /\ EnterHandler(t, "gssm_return")
  /\ response' = [response EXCEPT ![t] = ReturnResponse(EmptyObject, TRUE)]
  /\ UNCHANGED <<nameVars, snapVars, callVars, registered, terminated, busInterfaces,
                 nEvents, nBusChanges, ret, wifiInterface, notifications, logVars, hdcpVars>>

\* uint32_t WifiManagerState::getSupportedSecurityModes(parameters, response)
GetSupportedSecurityModes(t) ==
  /\ EnterHandler(t, "gssm_return")
  /\ response' = [response EXCEPT ![t] = ReturnResponse(EmptyObject, FALSE)]
  /\ UNCHANGED <<nameVars, snapVars, callVars, registered, terminated, busInterfaces,
                 nEvents, nBusChanges, ret, wifiInterface, notifications, logVars, hdcpVars>>

ReturnPcs == {"gcs_return", "ssid_return", "se_return", "gssm_return"}

\* return (Core::ERROR_NONE): the response goes to the caller, the thread is free.
Handler_Return(t) ==
  /\ pc[t] \in ReturnPcs
  /\ pc' = [pc EXCEPT ![t] = "idle"]
  /\ response' = [response EXCEPT ![t] = EmptyObject]
  /\ netid' = [netid EXCEPT ![t] = NoNetid]
  /\ ResetCall(t)
  /\ UNCHANGED <<nameVars, snapVars, envVars, ret, notifications, netidQueries, seedLog,
                 hdcpVars>>

(* --------------------------- the HDCP bridge -------------------------- *)
\* HdcpProfile has no body in the sources at hand: its handlers are modelled
\* from the specification of the bridge.  Each runs as one step (the HDMI
\* events come from one event handler, the query takes the API lock).

\* The raw HDCP statuses an HDCP status event can carry.
HdcpRawStatus == {"UNPOWERED", "UNAUTHENTICATED", "AUTHENTICATED"}

\* all the Wifi bridge's variables
wifiVars ==
  <<nameVars, snapVars, callVars, envVars, logVars, pc, ret, wifiInterface, response,
    notifications>>

\* A bridge that reports the last raw status whatever the hot-plug state is.
HDCPStatusOf_RawOnly(connected, raw) ==
  [isConnected |-> connected,
   hdcpStatus |-> raw,
   isHDCPCompliant |-> raw = "AUTHENTICATED"]

\* The status the bridge reports for a hot-plug state and a raw HDCP status:
\* the raw status counts only while the output is connected.
HDCPStatusOf(connected, raw) ==
  [isConnected |-> connected,
   hdcpStatus |-> IF connected THEN raw ELSE "UNAUTHENTICATED",
   isHDCPCompliant |-> connected /\ raw = "AUTHENTICATED"]

\* JsonObject HdcpProfile::getHDCPStatus()
getHDCPStatus == HDCPStatusOf(hdmiConnected, hdcpStatus)

\* The snapshot becomes (connected, raw); the subscribers are notified of the
\* new status when it differs from the one reported before.
HdcpUpdate(connected, raw) ==
  /\ nHdcpEvents < MaxHdcpEvents
  /\ nHdcpEvents' = nHdcpEvents + 1
  /\ hdmiConnected' = connected
  /\ hdcpStatus' = raw
  /\ hdcpNotifications' =
       IF HDCPStatusOf(connected, raw) # getHDCPStatus
         THEN Append(hdcpNotifications, HDCPStatusOf(connected, raw))
         ELSE hdcpNotifications
  /\ hdcpResponse' = EmptyObject
  /\ UNCHANGED <<nHdcpQueries, wifiVars>>

\* void HdcpProfile::onHdmiOutputHotPlug(int connectStatus)
onHdmiOutputHotPlug(connectStatus) ==
  /\ HdcpUpdate(connectStatus, hdcpStatus)
  /\ unplugged' = ~connectStatus

\* void HdcpProfile::onHdmiOutputHDCPStatusEvent(int)
onHdmiOutputHDCPStatusEvent(raw) ==
  /\ HdcpUpdate(hdmiConnected, raw)
  /\ UNCHANGED unplugged

\* uint32_t HdcpProfile::getHDCPStatusWrapper(parameters, response)
getHDCPStatusWrapper ==
  /\ nHdcpQueries < MaxHdcpQueries
  /\ nHdcpQueries' = nHdcpQueries + 1
  /\ hdcpResponse' = ReturnResponse(Put(EmptyObject, "HDCPStatus", getHDCPStatus), TRUE)
  /\ UNCHANGED <<hdmiConnected, hdcpStatus, hdcpNotifications, unplugged, nHdcpEvents,
                 wifiVars>>

(* --------------------------- the environment -------------------------- *)
\* Terminate(): the bridge unsubscribes and marks itself terminated.  The host
\* calls it after Initialize has returned, and may call it again.
Terminate ==
  /\ pc[InitThread] = "done"
  /\ terminated' = TRUE
  /\ registered' = FALSE
  /\ UNCHANGED <<nameVars, snapVars, callVars, busInterfaces, nEvents, nQueries,
                 nBusChanges, pc, ret, wifiInterface, response, notifications,
                 logVars, hdcpVars>>

\* The bus starts reporting another set of interfaces.
BusChange ==
  /\ nBusChanges < MaxBusChanges
  /\ nBusChanges' = nBusChanges + 1
  /\ \E c \in BusConfigs \ {busInterfaces} : busInterfaces' = c
  /\ UNCHANGED <<nameVars, snapVars, callVars, registered, terminated, nEvents, nQueries,
                 pc, ret, wifiInterface, response, notifications, logVars, hdcpVars>>

(* --------------------------- specifications --------------------------- *)
\* getWifiInterfaceName and fetchWifiInterfaceName, whoever calls them
NameSteps ==
  \/ \E t \in Threads : GetWifiInterfaceName_Lock(t)
  \/ \E t \in Threads : FetchWifiInterfaceName_GetInterfaces(t)
  \/ \E t \in Threads : FetchWifiInterfaceName_Loop(t)
  \/ \E t \in Threads : GetWifiInterfaceName_Return(t)

InitializeSteps ==
  \/ Initialize_Start(InitThread)
  \/ Initialize_Register(InitThread)
  \/ Initialize_GetStatus(InitThread)

\* statusChanged after its call, and updateWifiStatus
UpdateSteps ==
  \/ \E t \in EventThreads : StatusChanged_Compare(t)
  \/ \E t \in Threads : UpdateWifiStatus_Lock(t)
  \/ \E t \in Threads : UpdateWifiStatus_Store(t)
  \/ \E t \in Threads : UpdateWifiStatus_Unlock(t)
  \/ \E t \in Threads : UpdateWifiStatus_Lookup(t)
  \/ \E t \in Threads : UpdateWifiStatus_Notify(t)
  \/ \E t \in Threads : UpdateWifiStatus_Return(t)

CurrentStateSteps ==
  \/ \E t \in QueryThreads : GetCurrentState_Call(t)
  \/ \E t \in QueryThreads : GetCurrentState_Find(t)

HandlerReturns == \E t \in QueryThreads : Handler_Return(t)

ConnectedSSIDSteps ==
  \/ \E t \in QueryThreads : GetConnectedSSID_Call(t)
  \/ \E t \in QueryThreads : GetConnectedSSID_Check(t)
  \/ \E t \in QueryThreads : GetConnectedSSID_GetParam(t)

StubSteps ==
  \/ \E t \in QueryThreads : SetEnabled(t)
  \/ \E t \in QueryThreads : GetSupportedSecurityModes(t)

\* Events arrive on any free bus thread at any time after registration.
ConcurrentEvents ==
  \E t \in EventThreads, i \in EventInterfaces, s \in ConcurrentStatus :
    StatusChanged_Call(t, i, s)

\* The whole bridge: every handler, concurrent events, the bus changing.
Next ==
  \/ NameSteps
  \/ InitializeSteps
  \/ UpdateSteps
  \/ CurrentStateSteps
  \/ ConnectedSSIDSteps
  \/ StubSteps
  \/ HandlerReturns
  \/ ConcurrentEvents
  \/ Terminate
  \/ BusChange

Spec == Init /\ [][Next]_vars

\* No statusChanged call is running and Initialize has returned.
Quiescent ==
  /\ pc[InitThread] = "done"
  /\ \A u \in EventThreads : pc[u] = "idle"

\* Events delivered one at a time, each after the previous one has returned.
StatusChanged_CallInSequence(t, i, s) ==
  /\ Quiescent
  /\ StatusChanged_Call(t, i, s)

\* Sequential delivery: Initialize, then events of every status one at a time,
\* with getCurrentState called at any moment.
NextSeq ==
  \/ NameSteps
  \/ InitializeSteps
  \/ UpdateSteps
  \/ CurrentStateSteps
  \/ HandlerReturns
  \/ \E t \in EventThreads, i \in EventInterfaces, s \in RawStatus :
       StatusChanged_CallInSequence(t, i, s)

SpecSeq == Init /\ [][NextSeq]_vars

\* Concurrent delivery: Initialize's seed and the bus threads' events overlap,
\* with getCurrentState called at any moment.
NextRace ==
  \/ NameSteps
  \/ InitializeSteps
  \/ UpdateSteps
  \/ CurrentStateSteps
  \/ HandlerReturns
  \/ ConcurrentEvents

SpecRace == Init /\ [][NextRace]_vars

\* The bus side: discovery of the interface name, Initialize, concurrent events
\* and getConnectedSSID, while the bus changes the interfaces it reports.
NextBus ==
  \/ NameSteps
  \/ InitializeSteps
  \/ UpdateSteps
  \/ ConnectedSSIDSteps
  \/ HandlerReturns
  \/ \E t \in EventThreads, i \in EventInterfaces, s \in BusEventStatus :
       StatusChanged_Call(t, i, s)
  \/ BusChange

SpecBus == Init /\ [][NextBus]_vars

\* Teardown: Initialize, events one at a time, and Terminate() once Initialize
\* has returned, possibly while an event is being handled.
NextTerminate ==
  \/ NameSteps
  \/ InitializeSteps
  \/ UpdateSteps
  \/ ConcurrentEvents
  \/ Terminate

SpecTerminate == Init /\ [][NextTerminate]_vars

\* The request side: every query handler, called at any moment while
\* Initialize and the bus thread's events run.
NextQuery ==
  \/ NameSteps
  \/ InitializeSteps
  \/ UpdateSteps
  \/ CurrentStateSteps
  \/ ConnectedSSIDSteps
  \/ StubSteps
  \/ HandlerReturns
  \/ \E t \in EventThreads, i \in EventInterfaces, s \in BusEventStatus :
       StatusChanged_Call(t, i, s)

SpecQuery == Init /\ [][NextQuery]_vars

\* The HDCP bridge on its own: hot-plug and HDCP status events in any order,
\* getHDCPStatus called between them.
NextHdcp ==
  \/ \E connectStatus \in BOOLEAN : onHdmiOutputHotPlug(connectStatus)
  \/ \E raw \in HdcpRawStatus : onHdmiOutputHDCPStatusEvent(raw)
  \/ getHDCPStatusWrapper

SpecHdcp == Init /\ [][NextHdcp]_vars

(* ------------------------------- claims ------------------------------- *)
\* C1: an updateWifiStatus call notifies if and only if the logical state
\* mapped from its event's raw status differs from the logical state of the
\* snapshot before the event (an event without a row never notifies).  Stated
\* for the calls whose snapshot before the event was stored by an earlier call,
\* so that it does not rest on the value the snapshot starts with.
C1_NotifiesIffStateChanged ==
  \A t \in Threads :
    (pc[t] = "uws_return" /\ stamp[t] > 1) =>
      (notified[t] <=>
         /\ status[t] \in MappedStatus
         /\ \/ old[t] \notin MappedStatus
            \/ statusToState[status[t]] # statusToState[old[t]])

\* C2: notifications are delivered in the order in which their events were
\* stored in the snapshot.
C2_NotificationsInStoreOrder ==
  \A j, k \in 1..Len(notifications) :
    j < k => notifications[j].stamp < notifications[k].stamp

\* C3: for every raw status of the documented table, getCurrentState called
\* while the snapshot holds it answers success=true with the documented state,
\* and an event carrying it notifies with that same state.
C3_MappingIsTheDocumentedTable ==
  LET documented ==
        ("Disabled" :> DISABLED) @@ ("Disconnected" :> DISCONNECTED) @@
        ("Associating" :> CONNECTING) @@ ("Dormant" :> DISCONNECTED) @@
        ("Binding" :> CONNECTING) @@ ("Assigned" :> CONNECTED) @@
        ("Scanning" :> CONNECTING)
  IN /\ \A t \in QueryThreads :
          (pc[t] = "gcs_return" /\ ~raced[t] /\ lookup[t] \in DOMAIN documented) =>
            response[t] = [state |-> documented[lookup[t]], success |-> TRUE]
     /\ \A t \in Threads :
          (pc[t] = "uws_return" /\ status[t] \in DOMAIN documented) => notified[t]
     /\ \A k \in 1..Len(notifications) :
          notifications[k].event \in DOMAIN documented =>
            notifications[k].state = documented[notifications[k].event]

\* A Dormant event has notified DISCONNECTED, and getCurrentState has answered
\* from a snapshot holding a status of the table.
C3_Witness ==
  /\ \E k \in 1..Len(notifications) :
       notifications[k].event = "Dormant" /\ notifications[k].state = DISCONNECTED
  /\ \E t \in QueryThreads :
       pc[t] = "gcs_return" /\ ~raced[t] /\ lookup[t] = "Binding"
         /\ response[t] = [state |-> CONNECTING, success |-> TRUE]

\* C4: an event whose status has no row is stored in the snapshot and notifies
\* nothing; getCurrentState called while the snapshot holds such a status
\* answers success=false and no state.
C4_UnmappedStatusStoredNotNotified ==
  /\ \A t \in Threads :
       (pc[t] = "uws_return" /\ status[t] \notin MappedStatus) =>
         (~notified[t] /\ m_wifi_status = status[t])
  /\ \A t \in QueryThreads :
       (pc[t] = "gcs_return" /\ ~raced[t] /\ lookup[t] \notin MappedStatus) =>
         response[t] = [success |-> FALSE]

\* The snapshot started with a mapped status, an event stored one without a
\* row, and getCurrentState then failed.
C4_Witness ==
  /\ "Disabled" \in written
  /\ m_wifi_status = "Other"
  /\ \E t \in QueryThreads :
       pc[t] = "gcs_return" /\ ~raced[t] /\ lookup[t] = "Other"
         /\ response[t] = [success |-> FALSE]

\* C5: when no wifi interface was resolved, getConnectedSSID answers
\* success=false with ssid and the six other fields empty strings, and makes
\* no netid query.
C5_NoInterfaceGivesEmptyFields ==
  \A t \in QueryThreads :
    (pc[t] = "ssid_return" /\ wifiInterface[t] = "") =>
      /\ netidQueries = 0
      /\ response[t] =
           [ssid |-> EmptyString, bssid |-> EmptyString, rate |-> EmptyString,
            noise |-> EmptyString, security |-> EmptyString,
            signalStrength |-> EmptyString, frequency |-> EmptyString,
            success |-> FALSE]

\* C6: a thread that writes or reads m_wifi_status holds m_mutex.
C6_SnapshotAccessedUnderMutex ==
  \A t \in Threads :
    pc[t] \in {"uws_store", "uws_lookup", "gcs_find"} => m_mutex = t

\* C7: a thread that is delivering a notification or is in a bus query does
\* not own m_mutex.
C7_MutexNotHeldOverNotifyOrQuery ==
  \A t \in Threads :
    pc[t] \in {"uws_notify", "init_status", "fetch_interfaces", "fetch_loop", "ssid_netid"}
      => m_mutex # t

\* Initialize is delivering its notification while the bus thread is inside
\* the locked block.
C7_Witness ==
  /\ pc[InitThread] = "uws_notify"
  /\ \E u \in EventThreads : m_mutex = u

\* C8: every getCurrentState response is the response for a value the
\* snapshot has held, the initial one or one an event stored, or for the value
\* an event is storing at this moment.
C8_ResponsesReflectWrittenValues ==
  \A t \in QueryThreads :
    pc[t] = "gcs_return" =>
      \E v \in written \cup BeingStored(t) :
        response[t] = CurrentStateResponse(EmptyObject, v)

\* C9: once Terminate() has been called, no step changes the snapshot or
\* delivers a notification.
C9_InertAfterTerminate ==
  [][terminated => (m_wifi_status' = m_wifi_status /\ notifications' = notifications)]_vars

\* C10: fetchWifiInterfaceName runs at most once, exactly once as soon as a
\* caller has got a name, and every name a caller has got is the one name the
\* static holds now.
C10_NameDiscoveredOnce ==
  /\ fetches <= 1
  /\ observed \subseteq {name}
  /\ observed # {} => (fetches = 1 /\ nameInitialized)

\* Initialize got "wlan1", the bus stopped reporting it, and a request thread
\* is being handed the same name.
C10_Witness ==
  /\ name = "wlan1"
  /\ "wlan1" \in observed
  /\ busInterfaces = <<Eth0>>
  /\ \E t \in QueryThreads : pc[t] = "gwin_return"

\* C11: no step of a query handler (getCurrentState, getConnectedSSID,
\* setEnabled, getSupportedSecurityModes) changes the snapshot or delivers a
\* notification, and every step that changes the snapshot is the store of
\* updateWifiStatus.
C11_QueryHandlersLeaveSnapshotAlone ==
  [][/\ (\E t \in QueryThreads : pc'[t] # pc[t]) =>
          (m_wifi_status' = m_wifi_status /\ notifications' = notifications)
     /\ (m_wifi_status' # m_wifi_status) =>
          \E t \in Threads : pc[t] = "uws_store" /\ pc'[t] = "uws_unlock"]_vars

\* getConnectedSSID has succeeded after events changed the snapshot, which
\* holds what the last event stored.
C11_Witness ==
  /\ stores >= 2
  /\ m_wifi_status = "Assigned"
  /\ \E t \in QueryThreads : pc[t] = "ssid_return" /\ response[t]["success"]

\* C12: setEnabled and getSupportedSecurityModes answer success=false and
\* nothing else, whenever they are called.
C12_StubsAlwaysFail ==
  \A t \in QueryThreads :
    pc[t] \in {"se_return", "gssm_return"} => response[t] = [success |-> FALSE]

\* getSupportedSecurityModes has failed although Initialize is over and the
\* snapshot holds Assigned.
C12_Witness ==
  /\ pc[InitThread] = "done"
  /\ m_wifi_status = "Assigned"
  /\ \E t \in QueryThreads : pc[t] = "gssm_return" /\ response[t] = [success |-> FALSE]

\* C13: Initialize with a wifi interface resolved registers the callback and
\* then makes exactly one status query.  When Initialize has returned and no
\* event has been delivered yet: after a failed query the snapshot has never
\* been stored to and nothing was notified; after a successful one the
\* snapshot holds the queried status, stored by the one updateWifiStatus call.
C13_SeedQueriedOnce ==
  /\ Len(seedLog) <= 1
  /\ Len(seedLog) = 1 => registered
  /\ (pc[InitThread] = "done" /\ name # "") => (registered /\ Len(seedLog) = 1)
  /\ (pc[InitThread] = "done" /\ nEvents = 0 /\ Len(seedLog) = 1) =>
       IF seedLog[1]
         THEN stores = 1
         ELSE stores = 0 /\ written = {m_wifi_status} /\ notifications = <<>>
  /\ (pc[InitThread] = "uws_return" /\ nEvents = 0) =>
       /\ seedLog[1]
       /\ stores = 1
       /\ m_wifi_status = status[InitThread]
       /\ \A k \in 1..Len(notifications) : notifications[k].event = status[InitThread]

\* Initialize has returned after a seed query that failed: the callback is
\* registered and the snapshot still holds the unmapped value it started with.
C13_Witness ==
  /\ pc[InitThread] = "done"
  /\ registered
  /\ seedLog = <<FALSE>>
  /\ m_wifi_status = "Other"
  /\ nEvents = 0

\* C14: once a hot-unplug has been processed, and until the next hot-plug,
\* getHDCPStatus answers "unauthenticated, not compliant" and so does the
\* last status notification delivered, whatever raw HDCP status the bridge
\* last received.
C14_UnplugForcesUnauthenticated ==
  LET NotSecure(st) == st.hdcpStatus = "UNAUTHENTICATED" /\ ~st.isHDCPCompliant
  IN unplugged =>
       /\ hdcpResponse # EmptyObject => NotSecure(hdcpResponse["HDCPStatus"])
       /\ hdcpNotifications # <<>> =>
            NotSecure(hdcpNotifications[Len(hdcpNotifications)])

\* The output was authenticated, then unplugged: the raw status kept is still
\* AUTHENTICATED, the unplug has been notified and a query answered since.
C14_Witness ==
  /\ unplugged
  /\ hdcpStatus = "AUTHENTICATED"
  /\ hdcpResponse # EmptyObject
  /\ Len(hdcpNotifications) >= 2
  /\ hdcpNotifications[Len(hdcpNotifications) - 1].isHDCPCompliant

\* C15: when the name resolved is empty, the callback is never registered, no
\* seed query is made, the snapshot is never stored to and no notification is
\* delivered, whatever the bus reports later.
C15_NoInterfaceStaysDegraded ==
  (nameInitialized /\ name = "") =>
    /\ ~registered
    /\ seedLog = <<>>
    /\ stores = 0
    /\ written = {m_wifi_status}
    /\ notifications = <<>>
    /\ \A t \in EventThreads : pc[t] = "idle"

\* Initialize returned without an interface, and the bus reports a wifi
\* interface since.
C15_Witness ==
  /\ pc[InitThread] = "done"
  /\ name = ""
  /\ BusType("wlan0") = "wifi"
  /\ nBusChanges = 1

\* C16: getConnectedSSID answers success=true exactly when a wifi interface
\* was resolved, the netid query it made succeeded and the netid has a ':';
\* ssid is then the text after the first ':' and is absent otherwise; the six
\* other fields are empty strings in every outcome; no netid query is made
\* without an interface.  The response has no other member, so it is decided
\* by the name and the netid alone, not by the snapshot.
C16_ConnectedSSIDSucceedsIff ==
  \A t \in QueryThreads :
    pc[t] = "ssid_return" =>
      LET id == netid[t]
          colons == {k \in 1..Len(id) : id[k] = ":"}
          ok == /\ wifiInterface[t] # ""
                /\ id \notin {NoNetid, FailedNetid}
                /\ colons # {}
          first == CHOOSE k \in colons : \A j \in colons : k <= j
          empties == {"bssid", "rate", "noise", "security", "signalStrength", "frequency"}
      IN /\ response[t]["success"] = ok
         /\ DOMAIN response[t] =
              empties \cup {"success"} \cup (IF ok THEN {"ssid"} ELSE {})
         /\ ok => /\ Len(response[t]["ssid"]) = Len(id) - first
                  /\ \A i \in 1..(Len(id) - first) : response[t]["ssid"][i] = id[first + i]
         /\ \A f \in empties : response[t][f] = EmptyString
         /\ wifiInterface[t] = "" => id = NoNetid

\* The netid "w:a:b" gave the ssid "a:b", while the snapshot holds a status
\* stored by an event.
C16_Witness ==
  /\ stores >= 1
  /\ \E t \in QueryThreads :
       /\ pc[t] = "ssid_return"
       /\ netid[t] = <<"w", ":", "a", ":", "b">>
       /\ response[t]["success"]
       /\ response[t]["ssid"] = <<"a", ":", "b">>

\* C17: a statusChanged call whose interface is not the resolved name takes no
\* step that changes the snapshot or delivers a notification and returns from
\* the comparison; a bus thread is in updateWifiStatus only with an event for
\* exactly the resolved name, and an event for that name does go there.
C17_OtherInterfacesIgnored ==
  [][\A t \in EventThreads :
       /\ (/\ pc'[t] # pc[t]
           /\ \/ interface[t] \notin {NoName, name}
              \/ interface'[t] \notin {NoName, name'}) =>
            /\ m_wifi_status' = m_wifi_status
            /\ notifications' = notifications
            /\ stores' = stores
       /\ (pc[t] = "sc_compare" /\ pc'[t] # pc[t]) =>
            (pc'[t] = IF interface[t] = name THEN "uws_lock" ELSE "idle")
       /\ pc'[t] \in {"uws_lock", "uws_store", "uws_unlock", "uws_lookup", "uws_notify",
                      "uws_return"} => interface'[t] = name']_vars

\* The bus thread is at the comparison with an event for wlan0 while the
\* resolved name is wlan1 and the snapshot holds the seed.
C17_Witness ==
  /\ name = "wlan1"
  /\ stores = 1
  /\ \E t \in EventThreads :
       pc[t] = "sc_compare" /\ interface[t] = "wlan0" /\ wifiInterface[t] = "wlan1"

\* C18: every updateWifiStatus call with a mapped status delivers a
\* notification, and the state each notification carries is the one mapped
\* from the status of the call that delivered it.
C18_NotifiesOwnStatus ==
  /\ \A t \in Threads :
       (pc[t] = "uws_return" /\ status[t] \in MappedStatus) => notified[t]
  /\ \A k \in 1..Len(notifications) :
       notifications[k].event \in MappedStatus =>
         notifications[k].state = statusToState[notifications[k].event]

\* C19: when no updateWifiStatus call is in progress and the snapshot holds a
\* mapped status that a call stored, the last notification delivered carries
\* the state mapped from the snapshot.
C19_LastNotificationMatchesSnapshot ==
  (/\ \A t \in Threads :
        pc[t] \notin {"uws_lock", "uws_store", "uws_unlock", "uws_lookup", "uws_notify",
                      "uws_return"}
   /\ stores > 0
   /\ m_wifi_status \in MappedStatus) =>
    /\ notifications # <<>>
    /\ notifications[Len(notifications)].state = statusToState[m_wifi_status]

\* C20: when an event was stored after the seed query returned its status and
\* before Initialize stores it, Initialize's store leaves the snapshot holding
\* the event's status.
C20_SeedKeepsNewerStatus ==
  [][(/\ pc[InitThread] = "uws_store"
      /\ pc'[InitThread] = "uws_unlock"
      /\ overtaken) =>
       m_wifi_status' = m_wifi_status]_vars

====
